---- MODULE Spec2Model ----
(***************************************************************************)
(* Model of LanguageOfTheSpeaker/extract_embeddings.py: the command-line   *)
(* pipeline that resolves the audio files named by two manifests, extracts *)
(* one embedding per resolved file, labels every record with the name of   *)
(* its parent folder and persists the records as one .npy container or as  *)
(* records of a ChromaDB collection.                                       *)
(*                                                                         *)
(* A pathlib.Path is a sequence of components; a path STRING is a sequence *)
(* of tokens in which "/" separates the components, so str(Path) and       *)
(* Path(str) are real conversions.                                         *)
(***************************************************************************)
EXTENDS Integers, Sequences, FiniteSets, TLC

\* ---------------------------------------------------------------- bounds
MaxTrain == 2      \* longest train manifest
MaxRuns == 2       \* invocations of the script against the same save_path

\* ------------------------------------------------------------ input sets
Files == {"a.wav", "b.wav"}
DirOrders == { <<"en", "ru">>, <<"ru", "en">>, <<"README", "en">> }
DatasetDirs == { <<".">>, <<".", "/", "dataset">> }

\* One entry of dataset_dir.iterdir(): a sub-directory with the files it
\* holds, or a plain file (which holds nothing).
DirEntry(n, fs) == [name |-> n, is_dir |-> n # "README",
                    files |-> IF n = "README" THEN {} ELSE fs]

Listings ==
    { [i \in 1..Len(o) |-> DirEntry(o[i], c[i])] :
        o \in DirOrders, c \in [1..2 -> SUBSET Files] }

RECURSIVE SeqsUpTo(_, _)
SeqsUpTo(S, n) ==
    IF n = 0 THEN { <<>> }
    ELSE LET shorter == SeqsUpTo(S, n - 1)
         IN  shorter \cup { Append(s, x) : s \in shorter, x \in S }

Manifests(n) == SeqsUpTo({ [filename |-> f] : f \in Files }, n)

\* The test manifests tried: empty, one entry, two entries.
TestManifests ==
    { <<>>, << [filename |-> "a.wav"] >>,
      << [filename |-> "b.wav"], [filename |-> "a.wav"] >> }

\* ----------------------------------------------------------------- paths
\* Path(s): pathlib parses a string: split at "/", drop "." components.
RECURSIVE Path(_)
Path(s) ==
    IF s = <<>> THEN <<>>
    ELSE IF Head(s) = "/" \/ Head(s) = "." THEN Path(Tail(s))
    ELSE <<Head(s)>> \o Path(Tail(s))

\* str(p): the components joined by "/"; the empty path prints as ".".
RECURSIVE JoinComponents(_)
JoinComponents(p) ==
    IF Len(p) = 1 THEN p
    ELSE <<Head(p), "/">> \o JoinComponents(Tail(p))

Str(p) == IF p = <<>> THEN <<".">> ELSE JoinComponents(p)

\* p / name
PathJoin(p, name) == Append(p, name)

\* Path.parent and Path.name
PathParent(p) == IF p = <<>> THEN <<>> ELSE SubSeq(p, 1, Len(p) - 1)
PathName(p) == IF p = <<>> THEN "" ELSE p[Len(p)]

\* Mutant: the test is lang_dir.is_dir(), not potential_path.exists().
PotentialPathExists_dir_only(entry, filename) == entry.is_dir

\* (lang_dir / filename).exists() for the entry of lang_dir
PotentialPathExists(entry, filename) ==
    entry.is_dir /\ filename \in entry.files

\* --------------------------------------------------------------- locator
\* The inner loop of get_audio_path: the first entry of the listing, from
\* position k on, under which filename exists; 0 when there is none.
RECURSIVE FirstMatch(_, _, _)
FirstMatch(ls, filename, k) ==
    IF k > Len(ls) THEN 0
    ELSE IF PotentialPathExists(ls[k], filename) THEN k
    ELSE FirstMatch(ls, filename, k + 1)

\* Mutant: the inner loop lacks its break and appends every match.
RECURSIVE AllMatches(_, _, _, _)
AllMatches(ls, filename, dir, k) ==
    IF k > Len(ls) THEN <<>>
    ELSE (IF PotentialPathExists(ls[k], filename)
          THEN <<PathJoin(PathJoin(Path(dir), ls[k].name), filename)>>
          ELSE <<>>) \o AllMatches(ls, filename, dir, k + 1)

RECURSIVE get_audio_path_no_break(_, _, _)
get_audio_path_no_break(data, dir, ls) ==
    IF data = <<>> THEN <<>>
    ELSE AllMatches(ls, Head(data).filename, dir, 1)
            \o get_audio_path_no_break(Tail(data), dir, ls)

RECURSIVE get_audio_path(_, _, _)
get_audio_path(data, dir, ls) ==
    IF data = <<>> THEN <<>>
    ELSE LET filename == Head(data).filename
             k == FirstMatch(ls, filename, 1)
             rest == get_audio_path(Tail(data), dir, ls)
         IN  IF k = 0 THEN rest
             ELSE <<PathJoin(PathJoin(Path(dir), ls[k].name), filename)>> \o rest

\* ------------------------------------------------------------- extractor
\* model.extract_embedding(file_path): the pretrained model is a black box;
\* a deterministic model gives one vector per audio file.
extract_embedding(file_path) == <<"vec", file_path>>

\* Mutant: each record is put in front of the list instead of appended.
extract_embeddings_prepend(audio_files) ==
    [i \in 1..Len(audio_files) |->
        [file_path |-> Str(audio_files[Len(audio_files) + 1 - i]),
         embedding |-> extract_embedding(audio_files[Len(audio_files) + 1 - i])]]

\* extract_embeddings, lines 41-52: one record per file, in input order,
\* holding str(file_path) and the embedding.
extract_embeddings(audio_files) ==
    [i \in 1..Len(audio_files) |->
        [file_path |-> Str(audio_files[i]),
         embedding |-> extract_embedding(audio_files[i])]]

\* -------------------------------------------------------- label assigner
\* Mutant: the first component of the path instead of the parent's name.
parent_folder_first_component(emb) == Head(Path(emb.file_path))

\* Path(emb['file_path']).parent.name
parent_folder(emb) == PathName(PathParent(Path(emb.file_path)))

\* emb['label'] = parent_folder: the record gains (or overwrites) one key.
SetLabel(emb) ==
    [k \in DOMAIN emb \cup {"label"} |->
        IF k = "label" THEN parent_folder(emb) ELSE emb[k]]

assign_labels(embeddings) ==
    [i \in 1..Len(embeddings) |-> SetLabel(embeddings[i])]

\* ----------------------------------------------------------- persistence
\* np.array(embeddings) of main's one-element list, as np.save writes it.
NpyContainer(train, test) == << [train |-> train, test |-> test] >>

NoFile == [state |-> "absent", content |-> <<>>]
OldFile == [state |-> "old", content |-> <<>>]
TruncatedFile == [state |-> "truncated", content |-> <<>>]

\* Mutant: the new array is appended to the array the file already holds.
save_to_npy_merge(embeddings, old_file) ==
    [state |-> "saved", content |-> old_file.content \o embeddings]

\* np.save opens the target for writing and writes the whole array: the
\* earlier content of the file plays no part.
save_to_npy(embeddings, old_file) == [state |-> "saved", content |-> embeddings]

\* Mutant: ids count from one.
RecordId_one_based(split, i) == <<split, "_", i + 1>>

\* f"{split}_{i}"
RecordId(split, i) == <<split, "_", i>>

\* The rows handed to collection.add, lines 80-86.  written_by is a history
\* field (the invocation that wrote the row), not data of the store.
ChromaRows(embeddings, split, r) ==
    [i \in 1..Len(embeddings) |->
        [id |-> RecordId(split, i - 1),
         embedding |-> embeddings[i].embedding,
         metadata |-> [file_path |-> embeddings[i].file_path,
                       label |-> embeddings[i].label,
                       split |-> split],
         written_by |-> r]]

Ids(coll) == { coll[i].id : i \in DOMAIN coll }

Collides(coll, rows) == \E i \in DOMAIN rows : rows[i].id \in Ids(coll)

\* Mutant: upsert, a row with a known id replaces the stored row.
collection_upsert(coll, rows) ==
    [i \in DOMAIN coll |->
        IF \E j \in DOMAIN rows : rows[j].id = coll[i].id
        THEN rows[CHOOSE j \in DOMAIN rows : rows[j].id = coll[i].id]
        ELSE coll[i]]
    \o SelectSeq(rows, LAMBDA r : r.id \notin Ids(coll))

\* collection.add inserts rows; it is not upsert: a row whose id the
\* collection already holds is never replaced.  What add does with such a
\* row depends on the chromadb release: it is rejected with a duplicate-id
\* error, or it is skipped with a warning (add_policy).
collection_add(coll, rows) ==
    coll \o SelectSeq(rows, LAMBDA r : r.id \notin Ids(coll))

\* ------------------------------------------------------------------ state
VARIABLES
    dataset_dir,        \* --dataset_dir, a path string
    listing,            \* dataset_dir.iterdir(), in listing order
    train_manifest,     \* json content of --train_dir
    test_manifest,      \* json content of --test_dir
    train_exists,       \* os.path.exists(args.train_dir)
    test_exists,        \* os.path.exists(args.test_dir)
    output,             \* --output
    add_policy,         \* what the installed chromadb does with an existing id
    pc,                 \* the step main is about to take
    error,              \* the exception that ended the run, "none" otherwise
    run,                \* number of this invocation
    disk_at_start,      \* the disk as this invocation found it
    train_audio_files, test_audio_files,
    train_embeddings, test_embeddings,
    save_dir,           \* save_path exists
    npy_file,           \* save_path/numpy_embs.npy
    npy_written_by,     \* invocation that wrote the container in npy_file
    collection,         \* rows of collection "gender_embeddings" at save_path
    trace,              \* steps this invocation has begun, in order
    writes,             \* persistence writes this invocation has completed
    manifests_read,     \* manifests this invocation has opened
    extractor_calls     \* calls of extract_embeddings by this invocation

inputs == <<dataset_dir, listing, train_manifest, test_manifest,
            train_exists, test_exists, output, add_policy>>
memory == <<train_audio_files, test_audio_files,
            train_embeddings, test_embeddings>>
disk == <<save_dir, npy_file, npy_written_by, collection>>
history == <<trace, writes, manifests_read, extractor_calls>>
vars == <<inputs, memory, disk, history, pc, error, run, disk_at_start>>

Init ==
    /\ dataset_dir \in DatasetDirs
    /\ listing \in Listings
    /\ train_manifest \in Manifests(MaxTrain)
    /\ test_manifest \in TestManifests
    /\ train_exists \in BOOLEAN
    /\ test_exists \in BOOLEAN
    /\ output \in {"npy", "chromadb"}
    /\ add_policy \in IF output = "chromadb" THEN {"raise", "skip"} ELSE {"skip"}
    /\ pc = "validate-inputs"
    /\ error = "none"
    /\ run = 1
    /\ train_audio_files = <<>> /\ test_audio_files = <<>>
    /\ train_embeddings = <<>> /\ test_embeddings = <<>>
    /\ save_dir \in IF output = "npy" THEN BOOLEAN ELSE {FALSE}
    /\ npy_file \in IF save_dir /\ output = "npy" THEN {NoFile, OldFile} ELSE {NoFile}
    /\ npy_written_by = 0
    /\ collection = <<>>
    /\ disk_at_start = disk
    /\ trace = <<>> /\ writes = <<>>
    /\ manifests_read = 0 /\ extractor_calls = 0

Begin(step) == pc = step /\ trace' = Append(trace, step)

Raise(e) == pc' = "failed" /\ error' = e

\* Mutant: only train_dir is checked.
InputsExist_train_only == train_exists

\* The existence checks of main, lines 116-119 (and the device choice).
InputsExist == train_exists /\ test_exists

ValidateInputs ==
    /\ Begin("validate-inputs")
    /\ IF InputsExist
       THEN pc' = "resolve-train-paths" /\ error' = error
       ELSE Raise("FileNotFoundError")
    /\ UNCHANGED <<inputs, memory, disk, run, disk_at_start, writes, manifests_read, extractor_calls>>

\* line 123; open(json_file) raises when the manifest is missing.
ResolveTrainPaths ==
    /\ Begin("resolve-train-paths")
    /\ IF train_exists
       THEN /\ manifests_read' = manifests_read + 1
            /\ train_audio_files' = get_audio_path(train_manifest, dataset_dir, listing)
            /\ pc' = "resolve-test-paths" /\ error' = error
       ELSE /\ Raise("FileNotFoundError")
            /\ UNCHANGED <<manifests_read, train_audio_files>>
    /\ UNCHANGED <<inputs, test_audio_files, train_embeddings, test_embeddings,
                   disk, run, disk_at_start, writes, extractor_calls>>

\* line 124
ResolveTestPaths ==
    /\ Begin("resolve-test-paths")
    /\ IF test_exists
       THEN /\ manifests_read' = manifests_read + 1
            /\ test_audio_files' = get_audio_path(test_manifest, dataset_dir, listing)
            /\ pc' = "extract-train" /\ error' = error
       ELSE /\ Raise("FileNotFoundError")
            /\ UNCHANGED <<manifests_read, test_audio_files>>
    /\ UNCHANGED <<inputs, train_audio_files, train_embeddings, test_embeddings,
                   disk, run, disk_at_start, writes, extractor_calls>>

\* Mutant: the train split is labelled and persisted as soon as it is
\* extracted (a checkpoint), before the test split is extracted.
ExtractTrain_checkpoint ==
    /\ Begin("extract-train")
    /\ extractor_calls' = extractor_calls + 1
    /\ train_embeddings' = extract_embeddings(train_audio_files)
    /\ pc' = "extract-test"
    /\ save_dir' = TRUE
    /\ IF output = "chromadb"
       THEN /\ collection' = collection_add(collection,
                   ChromaRows(assign_labels(train_embeddings'), "train", run))
            /\ UNCHANGED <<npy_file, npy_written_by>>
       ELSE /\ npy_file' = save_to_npy(NpyContainer(train_embeddings', <<>>), npy_file)
            /\ npy_written_by' = run
            /\ UNCHANGED collection
    /\ UNCHANGED <<inputs, train_audio_files, test_audio_files, test_embeddings,
                   run, disk_at_start, error, writes, manifests_read>>

\* lines 126-127
ExtractTrain ==
    /\ Begin("extract-train")
    /\ extractor_calls' = extractor_calls + 1
    /\ train_embeddings' = extract_embeddings(train_audio_files)
    /\ pc' = "extract-test"
    /\ UNCHANGED <<inputs, train_audio_files, test_audio_files, test_embeddings,
                   disk, run, disk_at_start, error, writes, manifests_read>>

\* load_model_local or extract_embedding raises: nothing is caught, the
\* records built so far are lost with the call.
ExtractTrainFails ==
    /\ Begin("extract-train")
    /\ extractor_calls' = extractor_calls + 1
    /\ Raise("ModelError")
    /\ UNCHANGED <<inputs, memory, disk, run, disk_at_start, writes, manifests_read>>

\* lines 128-129
ExtractTest ==
    /\ Begin("extract-test")
    /\ extractor_calls' = extractor_calls + 1
    /\ test_embeddings' = extract_embeddings(test_audio_files)
    /\ pc' = "label-train"
    /\ UNCHANGED <<inputs, train_audio_files, test_audio_files, train_embeddings,
                   disk, run, disk_at_start, error, writes, manifests_read>>

ExtractTestFails ==
    /\ Begin("extract-test")
    /\ extractor_calls' = extractor_calls + 1
    /\ Raise("ModelError")
    /\ UNCHANGED <<inputs, memory, disk, run, disk_at_start, writes, manifests_read>>

\* line 131
LabelTrain ==
    /\ Begin("label-train")
    /\ train_embeddings' = assign_labels(train_embeddings)
    /\ pc' = "label-test"
    /\ UNCHANGED <<inputs, train_audio_files, test_audio_files, test_embeddings,
                   disk, run, disk_at_start, error, writes, manifests_read, extractor_calls>>

\* line 132
LabelTest ==
    /\ Begin("label-test")
    /\ test_embeddings' = assign_labels(test_embeddings)
    /\ pc' = "persist"
    /\ UNCHANGED <<inputs, train_audio_files, test_audio_files, train_embeddings,
                   disk, run, disk_at_start, error, writes, manifests_read, extractor_calls>>

\* lines 134-137: os.makedirs(save_path, exist_ok=True), then save_to_npy.
PersistNpy ==
    /\ output = "npy"
    /\ Begin("persist")
    /\ save_dir' = TRUE
    /\ npy_file' = save_to_npy(NpyContainer(train_embeddings, test_embeddings), npy_file)
    /\ npy_written_by' = run
    /\ writes' = Append(writes, "npy")
    /\ pc' = "done"
    /\ UNCHANGED <<inputs, memory, collection, run, disk_at_start, error, manifests_read, extractor_calls>>

\* os.makedirs raises (nothing changes), or np.save raises: before it
\* opened the file (the file is as it was) or while writing (it is cut).
PersistNpyFails ==
    /\ output = "npy"
    /\ Begin("persist")
    /\ Raise("OSError")
    /\ \/ UNCHANGED <<save_dir, npy_file>>
       \/ save_dir' = TRUE /\ npy_file' \in {npy_file, TruncatedFile}
    /\ UNCHANGED <<inputs, memory, npy_written_by, collection, run, disk_at_start, writes,
                   manifests_read, extractor_calls>>

\* save_to_chromadb, lines 76-87: PersistentClient creates save_path, the
\* collection is fetched or created, and the rows are added.
SaveToChromadb(embeddings, split, next) ==
    LET rows == ChromaRows(embeddings, split, run)
    IN  /\ save_dir' = TRUE
        /\ IF add_policy = "raise" /\ Collides(collection, rows)
           THEN /\ Raise("DuplicateIDError")
                /\ UNCHANGED <<collection, writes>>
           ELSE /\ collection' = collection_add(collection, rows)
                /\ writes' = Append(writes, split)
                /\ pc' = next /\ error' = error
        /\ UNCHANGED <<inputs, memory, npy_file, npy_written_by, run, disk_at_start,
                       manifests_read, extractor_calls>>

\* The client or the add raises for a reason of the database's own.
SaveToChromadbFails ==
    /\ Raise("DatabaseError")
    /\ save_dir' \in {save_dir, TRUE}
    /\ UNCHANGED <<inputs, memory, npy_file, npy_written_by, collection, run, disk_at_start,
                   writes, manifests_read, extractor_calls>>

\* Mutant: the test batch is written first.
PersistTestSplitFirst ==
    /\ output = "chromadb"
    /\ Begin("persist")
    /\ SaveToChromadb(test_embeddings, "test", "persist-test-split")

\* line 139
PersistTrainSplit ==
    /\ output = "chromadb"
    /\ Begin("persist")
    /\ SaveToChromadb(train_embeddings, "train", "persist-test-split")

PersistTrainSplitFails ==
    /\ output = "chromadb"
    /\ Begin("persist")
    /\ SaveToChromadbFails

\* line 140: still inside the persist step of main.
PersistTestSplit ==
    /\ output = "chromadb"
    /\ pc = "persist-test-split"
    /\ trace' = trace
    /\ SaveToChromadb(test_embeddings, "test", "done")

PersistTestSplitFails ==
    /\ output = "chromadb"
    /\ pc = "persist-test-split"
    /\ trace' = trace
    /\ SaveToChromadbFails

\* The script is started again with the same arguments: a new process, the
\* same disk.
Rerun ==
    /\ pc \in {"done", "failed"}
    /\ run < MaxRuns
    /\ run' = run + 1
    /\ disk_at_start' = disk
    /\ pc' = "validate-inputs"
    /\ error' = "none"
    /\ train_audio_files' = <<>> /\ test_audio_files' = <<>>
    /\ train_embeddings' = <<>> /\ test_embeddings' = <<>>
    /\ trace' = <<>> /\ writes' = <<>>
    /\ manifests_read' = 0 /\ extractor_calls' = 0
    /\ UNCHANGED <<inputs, disk>>

Next ==
    \/ ValidateInputs
    \/ ResolveTrainPaths
    \/ ResolveTestPaths
    \/ ExtractTrain
    \/ ExtractTrainFails
    \/ ExtractTest
    \/ ExtractTestFails
    \/ LabelTrain
    \/ LabelTest
    \/ PersistNpy
    \/ PersistNpyFails
    \/ PersistTrainSplit
    \/ PersistTrainSplitFails
    \/ PersistTestSplit
    \/ PersistTestSplitFails
    \/ Rerun

Spec == Init /\ [][Next]_vars

\* ------------------------------------------------- what the claims refer to
\* The listing positions of the sub-directories that hold filename.
HoldingDirs(filename) ==
    { k \in DOMAIN listing : listing[k].is_dir /\ filename \in listing[k].files }

\* The manifest positions whose filename some sub-directory holds.
Matched(manifest) ==
    { i \in DOMAIN manifest : HoldingDirs(manifest[i].filename) # {} }

\* The manifest position of the n-th matched entry.
NthMatched(manifest, n) ==
    CHOOSE i \in Matched(manifest) :
        Cardinality({ j \in Matched(manifest) : j <= i }) = n

FirstHoldingDir(filename) ==
    CHOOSE k \in HoldingDirs(filename) : \A j \in HoldingDirs(filename) : k <= j

RootComponents == IF dataset_dir = <<".">> THEN <<>> ELSE <<"dataset">>

ExpectedPathString(dir, filename) ==
    IF dataset_dir = <<".">> THEN <<dir, "/", filename>>
    ELSE <<"dataset", "/", dir, "/", filename>>

Began(step) == \E i \in DOMAIN trace : trace[i] = step
LastBegun == IF trace = <<>> THEN "none" ELSE trace[Len(trace)]

\* get_audio_path has just returned for the train manifest, for both.
TrainResolved == pc \in {"resolve-test-paths", "extract-train"}
TestResolved == pc = "extract-train"

\* C1 for one split
OnePathPerMatchedEntry(manifest, files) ==
    /\ Len(files) = Cardinality(Matched(manifest))
    /\ Len(files) = Len(manifest) - Cardinality(DOMAIN manifest \ Matched(manifest))
    /\ \A n \in DOMAIN files :
         LET filename == manifest[NthMatched(manifest, n)].filename
         IN  \E k \in HoldingDirs(filename) :
               files[n] = RootComponents \o <<listing[k].name, filename>>

FirstMatchOnly(manifest, files) ==
    /\ Len(files) <= Len(manifest)
    /\ \A n \in DOMAIN files :
         LET filename == manifest[NthMatched(manifest, n)].filename
         IN  /\ n <= Cardinality(Matched(manifest))
             /\ files[n][Len(files[n])] = filename
             /\ files[n][Len(files[n]) - 1] = listing[FirstHoldingDir(filename)].name

StartNpyFile == disk_at_start[2]
StartNpyWrittenBy == disk_at_start[3]
StartCollection == disk_at_start[4]

\* The batch of a split, as main holds it.
Batch(split) == IF split = "train" THEN train_embeddings ELSE test_embeddings

BatchIdsOf(split, n) == { <<split, "_", i>> : i \in 0..(n - 1) }

\* C3: a run that persists N train and M test records into an empty
\* collection leaves exactly N+M rows, with ids train_0..train_{N-1} and
\* test_0..test_{M-1}; each row's split is the prefix of its id and its
\* file_path, label (and embedding) are those of the record at that position.
C3_CollectionHoldsExactlyTheBatches ==
    (output = "chromadb" /\ pc = "done" /\ StartCollection = <<>>) =>
        LET N == Len(train_embeddings)
            M == Len(test_embeddings)
        IN  /\ Len(collection) = N + M
            /\ Cardinality(Ids(collection)) = N + M
            /\ Ids(collection) = BatchIdsOf("train", N) \cup BatchIdsOf("test", M)
            /\ \A k \in DOMAIN collection :
                 LET row == collection[k]
                     rec == Batch(row.id[1])[row.id[3] + 1]
                 IN  /\ row.metadata.split = row.id[1]
                     /\ row.metadata.file_path = rec.file_path
                     /\ row.metadata.label = rec.label
                     /\ row.embedding = rec.embedding

\* Two train records and two test records written into an empty collection.
C3_Witness ==
    /\ output = "chromadb" /\ pc = "done" /\ StartCollection = <<>>
    /\ Len(train_embeddings) = 2
    /\ Len(test_embeddings) = 2
    /\ Len(collection) = 4

\* The ids the batches of this input get.
InputBatchIds ==
    BatchIdsOf("train", Cardinality(Matched(train_manifest)))
        \cup BatchIdsOf("test", Cardinality(Matched(test_manifest)))

\* This invocation found the rows of an earlier identical run.
RerunOverEarlierRows ==
    /\ output = "chromadb"
    /\ InputBatchIds # {}
    /\ Ids(StartCollection) = InputBatchIds

C5_MissingInputFailsBeforeAnyWork ==
    (~train_exists \/ ~test_exists) =>
        /\ pc \in {"validate-inputs", "failed"}
        /\ pc = "failed" =>
              (error = "FileNotFoundError" /\ trace = <<"validate-inputs">>)
        /\ manifests_read = 0
        /\ extractor_calls = 0
        /\ writes = <<>>
        /\ memory = << <<>>, <<>>, <<>>, <<>> >>
        /\ disk = disk_at_start

\* The run has failed on a missing test_dir.
C5_Witness ==
    /\ train_exists /\ ~test_exists
    /\ pc = "failed" /\ error = "FileNotFoundError"

\* The token before the last separator of a path string.
ParentNameInString(s) == IF Len(s) >= 3 THEN s[Len(s) - 2] ELSE ""

LabelsAssigned(before, after) ==
    /\ Len(after) = Len(before)
    /\ \A i \in DOMAIN before :
         /\ after[i].file_path = before[i].file_path
         /\ after[i].embedding = before[i].embedding
         /\ after[i].label = ParentNameInString(before[i].file_path)
         /\ DOMAIN after[i] = {"file_path", "embedding", "label"}

\* C6: assign_labels gives every record the name of the immediate parent
\* directory of its file_path, and leaves file_path, embedding, and the
\* number and order of the records as they were.
C6_AssignLabelsSetsParentFolder ==
    [][ /\ pc = "label-train" =>
             (LabelsAssigned(train_embeddings, train_embeddings')
                /\ test_embeddings' = test_embeddings)
        /\ pc = "label-test" =>
             (LabelsAssigned(test_embeddings, test_embeddings')
                /\ train_embeddings' = train_embeddings) ]_vars

\* Both batches are labelled, under a dataset root that has a name.
C6_Witness ==
    /\ pc = "persist"
    /\ dataset_dir = <<".", "/", "dataset">>
    /\ Len(train_embeddings) = 2
    /\ Len(test_embeddings) = 1
    /\ train_embeddings[1].label # train_embeddings[2].label

MainSteps ==
    << "validate-inputs", "resolve-train-paths", "resolve-test-paths",
       "extract-train", "extract-test", "label-train", "label-test", "persist" >>

Labelled(embeddings) == \A i \in DOMAIN embeddings : "label" \in DOMAIN embeddings[i]

\* C7: a run takes the steps validate-inputs .. persist in this order, each
\* at most once; a completed run has taken them all; nothing is written
\* until both splits are extracted and labelled; the vector-database
\* strategy writes the train batch before the test batch.
C7_StepsRunOnceInOrder ==
    /\ Len(trace) <= Len(MainSteps)
    /\ trace = SubSeq(MainSteps, 1, Len(trace))
    /\ pc = "done" =>
          /\ trace = MainSteps
          /\ writes = IF output = "npy" THEN <<"npy">> ELSE <<"train", "test">>
    /\ writes \in { <<>>, <<"npy">>, <<"train">>, <<"train", "test">> }
    /\ (writes # <<>> \/ disk # disk_at_start) =>
          /\ trace = MainSteps
          /\ Len(train_embeddings) = Len(train_audio_files)
          /\ Len(test_embeddings) = Len(test_audio_files)
          /\ Labelled(train_embeddings) /\ Labelled(test_embeddings)

\* A completed vector-database run with rows of both splits.
C7_Witness ==
    /\ pc = "done" /\ output = "chromadb"
    /\ writes = <<"train", "test">>
    /\ Len(train_embeddings) >= 1 /\ Len(test_embeddings) >= 1
    /\ Len(collection) >= 2

\* C8 as claimed: a failed run leaves no record of its own at save_path.
C8_FailedRunPersistsNothing ==
    pc = "failed" =>
        /\ collection = StartCollection
        /\ npy_written_by = StartNpyWrittenBy

\* C8 as amended: a failure during validation or extraction ends the run
\* with save_path untouched and the failing call's records lost; a failure
\* during persistence ends the run with no complete container written,
\* but in the vector-database strategy a failure on the test batch leaves
\* the train rows of this run in the collection.
C8_FailureKeepsCompletedWrites ==
    pc = "failed" =>
        /\ ~Began("persist") => (disk = disk_at_start /\ writes = <<>>)
        /\ error = "ModelError" =>
              /\ test_embeddings = <<>>
              /\ LastBegun = "extract-train" => train_embeddings = <<>>
        /\ npy_written_by = StartNpyWrittenBy
        /\ npy_file.state = "saved" => npy_file = StartNpyFile
        /\ collection # StartCollection =>
              /\ output = "chromadb"
              /\ writes = <<"train">>
              /\ Len(collection) > Len(StartCollection)
              /\ SubSeq(collection, 1, Len(StartCollection)) = StartCollection
              /\ \A k \in (Len(StartCollection) + 1)..Len(collection) :
                    /\ collection[k].metadata.split = "train"
                    /\ collection[k].written_by = run

\* The write of the test batch failed after the train rows were added.
C8_Witness ==
    /\ pc = "failed" /\ output = "chromadb"
    /\ writes = <<"train">>
    /\ Len(collection) = Len(StartCollection) + 2

\* The records a split must yield: one per matched manifest entry, in
\* manifest order, under the first sub-directory that holds the file.
ExpectedRecords(manifest) ==
    [n \in 1..Cardinality(Matched(manifest)) |->
        LET filename == manifest[NthMatched(manifest, n)].filename
            dir == listing[FirstHoldingDir(filename)].name
        IN  [file_path |-> ExpectedPathString(dir, filename), label |-> dir]]

PathAndLabel(embeddings) ==
    [i \in DOMAIN embeddings |->
        [file_path |-> embeddings[i].file_path, label |-> embeddings[i].label]]

\* C9: the array-file strategy creates save_path and leaves in
\* numpy_embs.npy exactly the one container {train, test} of this run,
\* whatever the file held before; the container is a function of the
\* inputs alone, so identical runs leave identical files.
C9_NpyHoldsContainerOfLatestRun ==
    (output = "npy" /\ pc = "done") =>
        /\ save_dir
        /\ npy_written_by = run
        /\ npy_file.state = "saved"
        /\ npy_file.content = << [train |-> train_embeddings, test |-> test_embeddings] >>
        /\ PathAndLabel(npy_file.content[1].train) = ExpectedRecords(train_manifest)
        /\ PathAndLabel(npy_file.content[1].test) = ExpectedRecords(test_manifest)

\* A second run has overwritten the container of the first.
C9_Witness ==
    /\ output = "npy" /\ pc = "done" /\ run = 2
    /\ StartNpyFile.state = "saved"
    /\ Len(train_embeddings) >= 1

\* The rows of a split in the collection, by index.
RowsOfSplit(split) ==
    LET idx == { k \in DOMAIN collection : collection[k].metadata.split = split }
    IN  [i \in 1..Cardinality(idx) |->
            LET k == CHOOSE k \in idx : collection[k].id = <<split, "_", i - 1>>
            IN  [file_path |-> collection[k].metadata.file_path,
                 label |-> collection[k].metadata.label]]

Persisted(split) ==
    IF output = "npy"
    THEN PathAndLabel(IF split = "train" THEN npy_file.content[1].train
                      ELSE npy_file.content[1].test)
    ELSE RowsOfSplit(split)

====
